---- MODULE Spec2Model ----
(***************************************************************************)
(* Model of virustotal3/enterprise.py: the VirusTotal v3 Enterprise        *)
(* endpoint wrappers.  Every wrapper builds one HTTP request, hands it to  *)
(* the `requests` library, checks the status code and returns, raises or   *)
(* terminates the process.  A wrapper invocation is one action: the        *)
(* transport's answer (a RequestException, or a status code and a body) is *)
(* an input of the action.  Only ZipFiles.get_zip takes more than one      *)
(* step: the chunks of the body are written to the file one at a time.     *)
(***************************************************************************)
EXTENDS Integers, Sequences, FiniteSets, TLC

VARIABLES
    obj,        \* the session object last constructed (Livehunt, Retrohunt, Accounts, ZipFiles) or NoObject
    pc,         \* "ready": the caller is about to call; "writing": get_zip is in its chunk loop;
                \* "done": the call returned or raised to the caller; "exited": exit(1) ended the process
    call,       \* the invocation in progress or last finished: name, api_key and proxies in effect, arguments
    sent,       \* the HTTP requests this invocation handed to the transport, in order
    response,   \* the transport's answer to this invocation, or NoResponse
    parsed,     \* TRUE when this invocation called response.json()
    fault,      \* the exception the environment raised inside this invocation: "none", "RequestException", "OSError"
    outcome,    \* how the invocation ended: returned a value, raised, or exited the process
    fs,         \* the file system: path -> file content, or Absent
    handle,     \* the file handle of get_zip: [path, open], or NoHandle
    chunks,     \* get_zip: the chunks response.iter_content() has still to yield
    threads     \* concurrent use of one session object: thread -> the state of its invocation

vars == <<obj, pc, call, sent, response, parsed, fault, outcome, fs, handle, chunks, threads>>

----------------------------------------------------------------------------
(* Bounds and input domains *)

MaxBytes == 3       \* longest archive body, in bytes
MaxChunks == 3      \* most chunks a body is delivered in

None == "None"
NoObject == [cls |-> "none"]
NoResponse == [none |-> TRUE]
NoHandle == [none |-> TRUE]
NoCall == [name |-> "none"]
Absent == [exists |-> FALSE]

ApiKeys == {None, "k"}
ProxyMaps == {None, "proxy_map"}
\* Resource IDs: "a/b" is an ID with a reserved character in it.
PlainIds == {"id1"}
Ids == PlainIds \cup {"a/b"}
OptionalIds == {None, ""} \cup Ids
Limits == {None, "10"}
Filters == {None, "f"}
Orders == {None, "o"}
Cursors == {None, "c"}
Queries == {"type:peexe"}
Flags == {None, "true"}
Times == {"201912010802"}
Relationships == {"graphs"}
Payloads == {"d"}
Tags == {"tag1"}
OutputDirs == {"out/"}
Bytes == {"b0", "b1"}

\* The threads that share one session object, and a thread that is in no call.
Threads == {"t1", "t2"}
Idle == [pc |-> "idle"]

StatusCodes == {200, 204, 404}

\* Response bodies: a JSON object as the text gives it, a sequence of <<key, value>> members.
Texts == { << <<"data", "v1">> >>,
           << <<"data", "v2">> >>,
           << <<"meta", "v1">>, <<"data", "v2">> >>,
           << <<"data", "v2">>, <<"meta", "v1">> >> }

\* The keys of the bodies in ascending string order.
KeyOrder == <<"data", "meta">>

\* Archive bodies: every byte string of at most MaxBytes bytes.
Contents == UNION {[1..n -> Bytes] : n \in 0..MaxBytes}

\* The ways response.iter_content() can deliver `b`: at most MaxChunks chunks, cut at any
\* positions (a chunk may be empty), whose concatenation is b.
Chunkings(b) ==
    IF b = <<>> THEN {<<>>} \cup {[i \in 1..n |-> <<>>] : n \in 1..MaxChunks}
    ELSE UNION { { [i \in 1..n |-> SubSeq(b, cut[i] + 1, cut[i + 1])] :
                   cut \in { f \in [1..(n + 1) -> 0..Len(b)] :
                               /\ f[1] = 0 /\ f[n + 1] = Len(b)
                               /\ \A i \in 1..n : f[i] <= f[i + 1] } } :
                 n \in 1..MaxChunks }

\* What the transport does with the download request of get_zip.
ZipTransport ==
    {[error |-> TRUE]} \cup
    {[error |-> FALSE, status_code |-> s, text |-> t] : s \in StatusCodes \ {200}, t \in Texts} \cup
    {[error |-> FALSE, status_code |-> 200, content |-> b] : b \in Contents}

\* What the transport does with one request: raise a RequestException, or answer.
Transport == {[error |-> TRUE]} \cup
             {[error |-> FALSE, status_code |-> s, text |-> t] : s \in StatusCodes, t \in Texts}

----------------------------------------------------------------------------
(* Python and library helpers *)

\* Truth value of an optional string argument (`if ruleset_id:`).
Truthy(x) == x # None /\ x # ""

\* requests drops every key whose value is None from `params` when it encodes the query string.
EncodeParams(params) == [k \in {k \in DOMAIN params : params[k] # None} |-> params[k]]

\* requests drops every header whose value is None when it prepares the request.
PrepareHeaders(headers) == [k \in {k \in DOMAIN headers : headers[k] # None} |-> headers[k]]

NoParams == [k \in {} |-> None]

\* The headers every wrapper sends.
Headers(api_key) == ("x-apikey" :> api_key) @@ ("Accept" :> "application/json")

\* The segments a text put into a URL by '...{}'.format(text) makes up: format copies the
\* text as it is, so a "/" inside it ends a segment.
SlashParts == [s \in {"a/b"} |-> <<"a", "b">>]

FormatSegments(text) == IF text \in DOMAIN SlashParts THEN SlashParts[text] ELSE <<text>>

\* The path of a URL built from the pieces `url`, segment by segment.
RECURSIVE WirePath(_)
WirePath(url) ==
    IF url = <<>> THEN <<>> ELSE FormatSegments(Head(url)) \o WirePath(Tail(url))

\* requests.get / post / patch / delete (method, url, params, headers, data, proxies): the request on the wire.
Request(method, url, params, headers, data, proxies) ==
    [method |-> method, url |-> WirePath(url), query |-> EncodeParams(params),
     headers |-> PrepareHeaders(headers), body |-> data, proxies |-> proxies]

\* response.json(): the object the body text denotes.
json(text) ==
    [k \in {text[i][1] : i \in DOMAIN text} |->
        text[CHOOSE i \in DOMAIN text : text[i][1] = k][2]]

Rank(k) == CHOOSE i \in DOMAIN KeyOrder : KeyOrder[i] = k

RECURSIVE SortedMembers(_, _)
SortedMembers(d, keys) ==
    IF keys = {} THEN <<>>
    ELSE LET k == CHOOSE x \in keys : \A y \in keys : Rank(x) <= Rank(y)
         IN <<<<k, d[k]>>>> \o SortedMembers(d, keys \ {k})

\* json.dumps(d, indent=4, sort_keys=True): the members in ascending key order.
dumps(d) == SortedMembers(d, DOMAIN d)

NoneValue == [none |-> TRUE]
NoBody == [none |-> TRUE]

Return(v) == [kind |-> "return", value |-> v]
Raise(msg) == [kind |-> "raise", message |-> msg]
Exit(code) == [kind |-> "exit", status |-> code]
NoOutcome == [kind |-> "none"]

ApiKeyMessage == "You must provide a valid API key"

\* Variant of _raise_exception: the message is the body parsed and serialized again.
raise_exception_reserialized(resp) == Raise([text |-> dumps(json(resp.text))])

\* _raise_exception(response): raise Exception(response.text)
raise_exception(resp) == Raise([text |-> resp.text])

\* raise Exception("You must provide a valid API key")
raise_api_key == Raise([literal |-> ApiKeyMessage])

\* Variant of the RequestException handler: the error goes on to the caller.
on_RequestException_reraise == Raise([literal |-> "RequestException"])

\* except requests.exceptions.RequestException as error: print(error); exit(1)
on_RequestException == Exit(1)

\* except os.error as error: print(error); exit(1)
on_os_error == Exit(1)

----------------------------------------------------------------------------
(* The part of a wrapper that follows the request: status check, result.   *)
(* Each gives the outcome of the call and whether response.json() ran.     *)

\* if response.status_code != 200: _raise_exception(response)
\* return json.dumps(response.json(), indent=4, sort_keys=True)
JsonResult(t) ==
    IF t.error THEN [outcome |-> on_RequestException, parsed |-> FALSE]
    ELSE IF t.status_code # 200 THEN [outcome |-> raise_exception(t), parsed |-> FALSE]
    ELSE [outcome |-> Return([json |-> dumps(json(t.text))]), parsed |-> TRUE]

\* search, file_feed: json.dumps(...) is evaluated and dropped; the function ends without a return.
DroppedResult(t) ==
    IF t.error THEN [outcome |-> on_RequestException, parsed |-> FALSE]
    ELSE IF t.status_code # 200 THEN [outcome |-> raise_exception(t), parsed |-> FALSE]
    ELSE [outcome |-> Return(NoneValue), parsed |-> TRUE]

\* delete and abort wrappers: return None
NoneResult(t) ==
    IF t.error THEN [outcome |-> on_RequestException, parsed |-> FALSE]
    ELSE IF t.status_code # 200 THEN [outcome |-> raise_exception(t), parsed |-> FALSE]
    ELSE [outcome |-> Return(NoneValue), parsed |-> FALSE]

\* One invocation that sent `req`, got `t` from the transport and ended as `r` says.
Finish(c, req, t, r) ==
    /\ call' = c
    /\ sent' = <<req>>
    /\ response' = IF t.error THEN NoResponse ELSE t
    /\ parsed' = r.parsed
    /\ fault' = IF t.error THEN "RequestException" ELSE "none"
    /\ outcome' = r.outcome
    /\ pc' = IF r.outcome.kind = "exit" THEN "exited" ELSE "done"
    /\ UNCHANGED <<obj, fs, handle, chunks, threads>>

\* An invocation that ended before any request.
FinishEarly(c, o) ==
    /\ call' = c
    /\ sent' = <<>>
    /\ response' = NoResponse
    /\ parsed' = FALSE
    /\ fault' = "none"
    /\ outcome' = o
    /\ pc' = "done"
    /\ UNCHANGED <<fs, handle, chunks, threads>>

Call(name, api_key, proxies, args) ==
    [name |-> name, api_key |-> api_key, proxies |-> proxies, args |-> args]

MethodCall(name, args) == Call(name, obj.api_key, obj.proxies, args)

----------------------------------------------------------------------------
(* Module-level functions *)

search(api_key, query, order, limit, cursor, descriptors_only, proxies) ==
    /\ pc = "ready"
    /\ LET c == Call("search", api_key, proxies,
                     [query |-> query, order |-> order, limit |-> limit, cursor |-> cursor,
                      descriptors_only |-> descriptors_only])
           params == [query |-> query, order |-> order, limit |-> limit, cursor |-> cursor,
                      descriptors_only |-> descriptors_only]
       IN IF api_key = None
          THEN FinishEarly(c, raise_api_key) /\ UNCHANGED obj
          ELSE \E t \in Transport :
                 Finish(c, Request("GET", <<"intelligence", "search">>, params,
                                   Headers(api_key), NoBody, proxies),
                        t, DroppedResult(t))

file_feed(api_key, time) ==
    /\ pc = "ready"
    /\ LET c == Call("file_feed", api_key, None, [time |-> time])
       IN IF api_key = None
          THEN FinishEarly(c, raise_api_key) /\ UNCHANGED obj
          ELSE \E t \in Transport :
                 Finish(c, Request("GET", <<"feeds", "files", time>>, NoParams,
                                   Headers(api_key), NoBody, None),
                        t, DroppedResult(t))

----------------------------------------------------------------------------
(* Constructors *)

Object(cls, api_key, base_url, proxies) ==
    [cls |-> cls, api_key |-> api_key, base_url |-> base_url,
     headers |-> Headers(api_key), proxies |-> proxies]

Livehunt_init(api_key, proxies) ==
    /\ pc = "ready"
    /\ IF api_key = None
       THEN /\ FinishEarly(Call("Livehunt.__init__", api_key, proxies, NoParams), raise_api_key)
            /\ UNCHANGED obj
       ELSE /\ FinishEarly(Call("Livehunt.__init__", api_key, proxies, NoParams), Return(NoneValue))
            /\ obj' = Object("Livehunt", api_key, <<"intelligence">>, proxies)

Retrohunt_init(api_key, proxies) ==
    /\ pc = "ready"
    /\ FinishEarly(Call("Retrohunt.__init__", api_key, proxies, NoParams), Return(NoneValue))
    /\ obj' = Object("Retrohunt", api_key, <<"intelligence">>, proxies)

Accounts_init(api_key, proxies) ==
    /\ pc = "ready"
    /\ FinishEarly(Call("Accounts.__init__", api_key, proxies, NoParams), Return(NoneValue))
    /\ obj' = Object("Accounts", api_key, <<>>, proxies)

ZipFiles_init(api_key, proxies) ==
    /\ pc = "ready"
    /\ FinishEarly(Call("ZipFiles.__init__", api_key, proxies, NoParams), Return(NoneValue))
    /\ obj' = Object("ZipFiles", api_key, <<"intelligence">>, proxies)

----------------------------------------------------------------------------
(* Livehunt *)

get_rulesets(ruleset_id, limit, fltr, order, cursor) ==
    /\ pc = "ready" /\ obj.cls = "Livehunt"
    /\ LET c == MethodCall("get_rulesets", [id |-> ruleset_id, limit |-> limit, fltr |-> fltr,
                                            order |-> order, cursor |-> cursor])
           req == IF Truthy(ruleset_id)
                  THEN Request("GET", obj.base_url \o <<"hunting_rulesets", ruleset_id>>,
                               [id |-> ruleset_id], obj.headers, NoBody, obj.proxies)
                  ELSE Request("GET", obj.base_url \o <<"hunting_rulesets">>,
                               [limit |-> limit, fltr |-> fltr, order |-> order, cursor |-> cursor],
                               obj.headers, NoBody, obj.proxies)
       IN \E t \in Transport : Finish(c, req, t, JsonResult(t))

create_rulset(data) ==
    /\ pc = "ready" /\ obj.cls = "Livehunt"
    /\ \E t \in Transport :
         Finish(MethodCall("create_rulset", [data |-> data]),
                Request("POST", obj.base_url \o <<"hunting_rulesets">>, NoParams,
                        obj.headers, [json |-> data], obj.proxies),
                t, JsonResult(t))

update_ruleset(ruleset_id, data) ==
    /\ pc = "ready" /\ obj.cls = "Livehunt"
    /\ \E t \in Transport :
         Finish(MethodCall("update_ruleset", [id |-> ruleset_id, data |-> data]),
                Request("PATCH", obj.base_url \o <<"hunting_rulesets", ruleset_id>>, NoParams,
                        obj.headers, [json |-> data], obj.proxies),
                t, JsonResult(t))

delete_ruleset(ruleset_id) ==
    /\ pc = "ready" /\ obj.cls = "Livehunt"
    /\ \E t \in Transport :
         Finish(MethodCall("delete_ruleset", [id |-> ruleset_id]),
                Request("DELETE", obj.base_url \o <<"hunting_rulesets", ruleset_id>>, NoParams,
                        obj.headers, NoBody, obj.proxies),
                t, NoneResult(t))

get_notifications(notification_id, limit, fltr, cursor) ==
    /\ pc = "ready" /\ obj.cls = "Livehunt"
    /\ LET c == MethodCall("get_notifications", [id |-> notification_id, limit |-> limit,
                                                 fltr |-> fltr, cursor |-> cursor])
           \* with an ID: no proxies argument; without: params is built and not passed
           req == IF Truthy(notification_id)
                  THEN Request("GET", obj.base_url \o <<"hunting_notifications", notification_id>>,
                               [id |-> notification_id], obj.headers, NoBody, None)
                  ELSE Request("GET", obj.base_url \o <<"hunting_notifications">>,
                               NoParams, obj.headers, NoBody, obj.proxies)
       IN \E t \in Transport : Finish(c, req, t, JsonResult(t))

delete_notifications(tag) ==
    /\ pc = "ready" /\ obj.cls = "Livehunt"
    /\ \E t \in Transport :
         Finish(MethodCall("delete_notifications", [tag |-> tag]),
                Request("DELETE", obj.base_url \o <<"hunting_notifications">>, [tag |-> tag],
                        obj.headers, NoBody, obj.proxies),
                t, NoneResult(t))

delete_notification(notification_id) ==
    /\ pc = "ready" /\ obj.cls = "Livehunt"
    /\ \E t \in Transport :
         Finish(MethodCall("delete_notification", [id |-> notification_id]),
                Request("DELETE", obj.base_url \o <<"hunting_notifications">>,
                        [id |-> notification_id], obj.headers, NoBody, obj.proxies),
                t, NoneResult(t))

\* Variant of get_notification_files: an absent argument is sent as an empty value.
get_notification_files_placeholder(limit, cursor) ==
    /\ pc = "ready" /\ obj.cls = "Livehunt"
    /\ \E t \in Transport :
         Finish(MethodCall("get_notification_files", [limit |-> limit, cursor |-> cursor]),
                Request("GET", obj.base_url \o <<"hunting_notification_files">>,
                        [limit |-> IF limit = None THEN "" ELSE limit,
                         cursor |-> IF cursor = None THEN "" ELSE cursor],
                        obj.headers, NoBody, obj.proxies),
                t, JsonResult(t))

get_notification_files(limit, cursor) ==
    /\ pc = "ready" /\ obj.cls = "Livehunt"
    /\ \E t \in Transport :
         Finish(MethodCall("get_notification_files", [limit |-> limit, cursor |-> cursor]),
                Request("GET", obj.base_url \o <<"hunting_notification_files">>,
                        [limit |-> limit, cursor |-> cursor], obj.headers, NoBody, obj.proxies),
                t, JsonResult(t))

----------------------------------------------------------------------------
(* Retrohunt *)

get_jobs(job_id, limit, fltr, cursor) ==
    /\ pc = "ready" /\ obj.cls = "Retrohunt"
    /\ LET c == MethodCall("get_jobs", [id |-> job_id, limit |-> limit, fltr |-> fltr,
                                        cursor |-> cursor])
           req == IF Truthy(job_id)
                  THEN Request("GET", obj.base_url \o <<"Retrohunt_jobs", job_id>>,
                               [id |-> job_id], obj.headers, NoBody, obj.proxies)
                  ELSE Request("GET", obj.base_url \o <<"Retrohunt_jobs">>,
                               [limit |-> limit, fltr |-> fltr, cursor |-> cursor],
                               obj.headers, NoBody, obj.proxies)
       IN \E t \in Transport : Finish(c, req, t, JsonResult(t))

create_job(data) ==
    /\ pc = "ready" /\ obj.cls = "Retrohunt"
    /\ \E t \in Transport :
         Finish(MethodCall("create_job", [data |-> data]),
                Request("POST", obj.base_url \o <<"Retrohunt_jobs">>, NoParams,
                        obj.headers, [json |-> data], obj.proxies),
                t, JsonResult(t))

\* Variant of delete_job: the body is returned as in the wrappers that yield JSON.
delete_job_returns_body(job_id) ==
    /\ pc = "ready" /\ obj.cls = "Retrohunt"
    /\ \E t \in Transport :
         Finish(MethodCall("delete_job", [id |-> job_id]),
                Request("DELETE", obj.base_url \o <<"Retrohunt_jobs", job_id>>, NoParams,
                        obj.headers, NoBody, obj.proxies),
                t, JsonResult(t))

delete_job(job_id) ==
    /\ pc = "ready" /\ obj.cls = "Retrohunt"
    /\ \E t \in Transport :
         Finish(MethodCall("delete_job", [id |-> job_id]),
                Request("DELETE", obj.base_url \o <<"Retrohunt_jobs", job_id>>, NoParams,
                        obj.headers, NoBody, obj.proxies),
                t, NoneResult(t))

abort_job(job_id) ==
    /\ pc = "ready" /\ obj.cls = "Retrohunt"
    /\ \E t \in Transport :
         Finish(MethodCall("abort_job", [id |-> job_id]),
                Request("POST", obj.base_url \o <<"Retrohunt_jobs", job_id, "abort">>, NoParams,
                        obj.headers, NoBody, obj.proxies),
                t, NoneResult(t))

get_matching_files(job_id) ==
    /\ pc = "ready" /\ obj.cls = "Retrohunt"
    /\ \E t \in Transport :
         Finish(MethodCall("get_matching_files", [id |-> job_id]),
                Request("GET", obj.base_url \o <<"Retrohunt_jobs", job_id, "matching_files">>,
                        NoParams, obj.headers, NoBody, obj.proxies),
                t, JsonResult(t))

----------------------------------------------------------------------------
(* Accounts *)

info_user(user_id) ==
    /\ pc = "ready" /\ obj.cls = "Accounts"
    /\ \E t \in Transport :
         Finish(MethodCall("info_user", [id |-> user_id]),
                Request("GET", obj.base_url \o <<"users", user_id>>, [id |-> user_id],
                        obj.headers, NoBody, obj.proxies),
                t, JsonResult(t))

info_group(group_id) ==
    /\ pc = "ready" /\ obj.cls = "Accounts"
    /\ \E t \in Transport :
         Finish(MethodCall("info_group", [id |-> group_id]),
                Request("GET", obj.base_url \o <<"groups", group_id>>, NoParams,
                        obj.headers, NoBody, obj.proxies),
                t, JsonResult(t))

get_relationship(group_id, relationship, limit, cursor) ==
    /\ pc = "ready" /\ obj.cls = "Accounts"
    /\ \E t \in Transport :
         Finish(MethodCall("get_relationship", [id |-> group_id, relationship |-> relationship,
                                                limit |-> limit, cursor |-> cursor]),
                Request("GET", obj.base_url \o <<"groups", group_id, "relationships", relationship>>,
                        [limit |-> limit, cursor |-> cursor], obj.headers, NoBody, obj.proxies),
                t, JsonResult(t))

----------------------------------------------------------------------------
(* ZipFiles *)

create_zip(data) ==
    /\ pc = "ready" /\ obj.cls = "ZipFiles"
    /\ \E t \in Transport :
         Finish(MethodCall("create_zip", [data |-> data]),
                Request("POST", obj.base_url \o <<"zip_files">>, NoParams,
                        obj.headers, [json |-> data], obj.proxies),
                t, JsonResult(t))

\* Variant of info_zip: a 200 answer is followed by a second status request.
info_zip_polls(zip_id) ==
    /\ pc = "ready" /\ obj.cls = "ZipFiles"
    /\ \E t \in Transport :
         LET req == Request("GET", obj.base_url \o <<"zip_files", zip_id>>, NoParams,
                            obj.headers, NoBody, obj.proxies)
             r == JsonResult(t)
         IN /\ call' = MethodCall("info_zip", [id |-> zip_id])
            /\ sent' = IF ~t.error /\ t.status_code = 200 THEN <<req, req>> ELSE <<req>>
            /\ response' = IF t.error THEN NoResponse ELSE t
            /\ parsed' = r.parsed
            /\ fault' = IF t.error THEN "RequestException" ELSE "none"
            /\ outcome' = r.outcome
            /\ pc' = IF r.outcome.kind = "exit" THEN "exited" ELSE "done"
            /\ UNCHANGED <<obj, fs, handle, chunks, threads>>

info_zip(zip_id) ==
    /\ pc = "ready" /\ obj.cls = "ZipFiles"
    /\ \E t \in Transport :
         Finish(MethodCall("info_zip", [id |-> zip_id]),
                Request("GET", obj.base_url \o <<"zip_files", zip_id>>, NoParams,
                        obj.headers, NoBody, obj.proxies),
                t, JsonResult(t))

get_url(zip_id) ==
    /\ pc = "ready" /\ obj.cls = "ZipFiles"
    /\ \E t \in Transport :
         Finish(MethodCall("get_url", [id |-> zip_id]),
                Request("GET", obj.base_url \o <<"zip_files", zip_id, "download_url">>, NoParams,
                        obj.headers, NoBody, obj.proxies),
                t, JsonResult(t))

\* output_dir + '{}.zip'.format(zip_id)
Path(output_dir, zip_id) == <<output_dir, zip_id, ".zip">>

Paths == {Path(d, z) : d \in OutputDirs, z \in PlainIds}

File(content) == [exists |-> TRUE, content |-> content]

\* Variant of get_zip: the file is opened for writing before the status check.
get_zip_open_first(zip_id, output_dir) ==
    /\ pc = "ready" /\ obj.cls = "ZipFiles"
    /\ \E t \in ZipTransport :
         LET c == MethodCall("get_zip", [id |-> zip_id, output_dir |-> output_dir])
             req == Request("GET", obj.base_url \o <<"zip_files", zip_id, "download">>, NoParams,
                            obj.headers, NoBody, obj.proxies)
             path == Path(output_dir, zip_id)
         IN /\ call' = c
            /\ sent' = <<req>>
            /\ response' = IF t.error THEN NoResponse ELSE t
            /\ parsed' = FALSE
            /\ UNCHANGED <<obj, threads>>
            /\ IF t.error
               THEN /\ outcome' = on_RequestException
                    /\ fault' = "RequestException"
                    /\ pc' = "exited"
                    /\ UNCHANGED <<fs, handle, chunks>>
               ELSE IF t.status_code # 200
               THEN /\ outcome' = raise_exception(t)
                    /\ fault' = "none"
                    /\ pc' = "done"
                    /\ fs' = [fs EXCEPT ![path] = File(<<>>)]
                    /\ UNCHANGED <<handle, chunks>>
               ELSE \/ \* open() raises OSError
                       /\ outcome' = on_os_error
                       /\ fault' = "OSError"
                       /\ pc' = "exited"
                       /\ UNCHANGED <<fs, handle, chunks>>
                    \/ \* 'wb' creates or truncates the file
                       /\ \E cs \in Chunkings(t.content) : chunks' = cs
                       /\ fs' = [fs EXCEPT ![path] = File(<<>>)]
                       /\ handle' = [path |-> path, open |-> TRUE]
                       /\ outcome' = NoOutcome
                       /\ fault' = "none"
                       /\ pc' = "writing"

\* The request, the status check and open(..., 'wb'); the chunk loop follows in write_chunk.
get_zip(zip_id, output_dir) ==
    /\ pc = "ready" /\ obj.cls = "ZipFiles"
    /\ \E t \in ZipTransport :
         LET c == MethodCall("get_zip", [id |-> zip_id, output_dir |-> output_dir])
             req == Request("GET", obj.base_url \o <<"zip_files", zip_id, "download">>, NoParams,
                            obj.headers, NoBody, obj.proxies)
             path == Path(output_dir, zip_id)
         IN /\ call' = c
            /\ sent' = <<req>>
            /\ response' = IF t.error THEN NoResponse ELSE t
            /\ parsed' = FALSE
            /\ UNCHANGED <<obj, threads>>
            /\ IF t.error
               THEN /\ outcome' = on_RequestException
                    /\ fault' = "RequestException"
                    /\ pc' = "exited"
                    /\ UNCHANGED <<fs, handle, chunks>>
               ELSE IF t.status_code # 200
               THEN /\ outcome' = raise_exception(t)
                    /\ fault' = "none"
                    /\ pc' = "done"
                    /\ UNCHANGED <<fs, handle, chunks>>
               ELSE \/ \* open() raises OSError
                       /\ outcome' = on_os_error
                       /\ fault' = "OSError"
                       /\ pc' = "exited"
                       /\ UNCHANGED <<fs, handle, chunks>>
                    \/ \* 'wb' creates or truncates the file
                       /\ \E cs \in Chunkings(t.content) : chunks' = cs
                       /\ fs' = [fs EXCEPT ![path] = File(<<>>)]
                       /\ handle' = [path |-> path, open |-> TRUE]
                       /\ outcome' = NoOutcome
                       /\ fault' = "none"
                       /\ pc' = "writing"

\* Variant of f.write: each chunk is written from the start of the file.
f_write_from_start(content, chunk) == chunk \o SubSeq(content, Len(chunk) + 1, Len(content))

\* f.write(chunk): the bytes of the chunk follow those already in the file.
f_write(content, chunk) == content \o chunk

\* One turn of `for chunk in response.iter_content(chunk_size=1024)`.
write_chunk ==
    /\ pc = "writing" /\ chunks # <<>>
    /\ LET chunk == Head(chunks)
           path == handle.path
       IN IF chunk = <<>>
          THEN \* `if chunk:` skips an empty chunk
               /\ chunks' = Tail(chunks)
               /\ UNCHANGED <<obj, pc, call, sent, response, parsed, fault, outcome, fs, handle, threads>>
          ELSE \/ \* f.write(chunk); f.flush()
                  /\ fs' = [fs EXCEPT ![path] = File(f_write(fs[path].content, chunk))]
                  /\ chunks' = Tail(chunks)
                  /\ UNCHANGED <<obj, pc, call, sent, response, parsed, fault, outcome, handle, threads>>
               \/ \* the write or the flush raises OSError after n bytes reached the file:
                  \* the with statement closes the file, the handler prints and exits
                  /\ \E n \in 0..Len(chunk) :
                       fs' = [fs EXCEPT ![path] =
                                File(f_write(fs[path].content, SubSeq(chunk, 1, n)))]
                  /\ handle' = [handle EXCEPT !.open = FALSE]
                  /\ outcome' = on_os_error
                  /\ fault' = "OSError"
                  /\ pc' = "exited"
                  /\ UNCHANGED <<obj, call, sent, response, parsed, chunks, threads>>

\* The loop is over: the with statement closes the file and get_zip returns None.
end_get_zip ==
    /\ pc = "writing" /\ chunks = <<>>
    /\ handle' = [handle EXCEPT !.open = FALSE]
    /\ outcome' = Return(NoneValue)
    /\ pc' = "done"
    /\ UNCHANGED <<obj, call, sent, response, parsed, fault, fs, chunks, threads>>

\* The caller has the result (a value or an exception) and goes on to its next call;
\* nothing of the finished call but the session object and the files outlives it.
caller_resumes ==
    /\ pc = "done"
    /\ pc' = "ready"
    /\ call' = NoCall
    /\ sent' = <<>>
    /\ response' = NoResponse
    /\ parsed' = FALSE
    /\ fault' = "none"
    /\ outcome' = NoOutcome
    /\ handle' = NoHandle
    /\ UNCHANGED <<obj, fs, chunks, threads>>

----------------------------------------------------------------------------
(* Specification *)

Init ==
    /\ obj = NoObject
    /\ pc = "ready"
    /\ call = NoCall
    /\ sent = <<>>
    /\ response = NoResponse
    /\ parsed = FALSE
    /\ fault = "none"
    /\ outcome = NoOutcome
    /\ fs = [p \in Paths |-> Absent]
    /\ handle = NoHandle
    /\ chunks = <<>>
    /\ threads = [th \in Threads |-> Idle]

Next ==
    \/ \E k \in ApiKeys, q \in Queries, o \in Orders, l \in Limits, c \in Cursors,
          d \in Flags, p \in ProxyMaps : search(k, q, o, l, c, d, p)
    \/ \E k \in ApiKeys, tm \in Times : file_feed(k, tm)
    \/ \E k \in ApiKeys, p \in ProxyMaps : Livehunt_init(k, p)
    \/ \E k \in ApiKeys, p \in ProxyMaps : Retrohunt_init(k, p)
    \/ \E k \in ApiKeys, p \in ProxyMaps : Accounts_init(k, p)
    \/ \E k \in ApiKeys, p \in ProxyMaps : ZipFiles_init(k, p)
    \/ \E i \in OptionalIds, l \in Limits, f \in Filters, o \in Orders, c \in Cursors :
          get_rulesets(i, l, f, o, c)
    \/ \E d \in Payloads : create_rulset(d)
    \/ \E i \in Ids, d \in Payloads : update_ruleset(i, d)
    \/ \E i \in Ids : delete_ruleset(i)
    \/ \E i \in OptionalIds, l \in Limits, f \in Filters, c \in Cursors :
          get_notifications(i, l, f, c)
    \/ \E tg \in Tags : delete_notifications(tg)
    \/ \E i \in Ids : delete_notification(i)
    \/ \E l \in Limits, c \in Cursors : get_notification_files(l, c)
    \/ \E i \in OptionalIds, l \in Limits, f \in Filters, c \in Cursors : get_jobs(i, l, f, c)
    \/ \E d \in Payloads : create_job(d)
    \/ \E i \in Ids : delete_job(i)
    \/ \E i \in Ids : abort_job(i)
    \/ \E i \in Ids : get_matching_files(i)
    \/ \E i \in Ids : info_user(i)
    \/ \E i \in Ids : info_group(i)
    \/ \E i \in Ids, r \in Relationships, l \in Limits, c \in Cursors :
          get_relationship(i, r, l, c)
    \/ \E d \in Payloads : create_zip(d)
    \/ \E i \in Ids : info_zip(i)
    \/ \E i \in Ids : get_url(i)
    \/ \E i \in PlainIds, d \in OutputDirs : get_zip(i, d)
    \/ write_chunk
    \/ end_get_zip
    \/ caller_resumes

Spec == Init /\ [][Next]_vars

----------------------------------------------------------------------------
(* Concurrent use: the threads of Threads call methods of one session      *)
(* object.  A method reads self.base_url, self.headers and self.proxies    *)
(* one after the other while it evaluates the arguments of requests.get,   *)
(* sends, and goes on with the answer; steps of different threads          *)
(* interleave.  exit(1) raises SystemExit in the calling thread.           *)

Unset == "unset"

\* The methods of each class.
Methods(cls) ==
    CASE cls = "Livehunt" -> {"get_rulesets", "create_rulset", "update_ruleset", "delete_ruleset",
                              "get_notifications", "delete_notifications", "delete_notification",
                              "get_notification_files"}
      [] cls = "Retrohunt" -> {"get_jobs", "create_job", "delete_job", "abort_job",
                               "get_matching_files"}
      [] cls = "Accounts" -> {"info_user", "info_group", "get_relationship"}
      [] cls = "ZipFiles" -> {"create_zip", "info_zip", "get_url", "get_zip"}
      [] OTHER -> {}

\* The request a method builds from its arguments `a` and the attribute values it read.
RequestOf(name, a, base_url, headers, proxies) ==
    CASE name = "get_rulesets" ->
            IF Truthy(a.id)
            THEN Request("GET", base_url \o <<"hunting_rulesets", a.id>>, [id |-> a.id],
                         headers, NoBody, proxies)
            ELSE Request("GET", base_url \o <<"hunting_rulesets">>,
                         [limit |-> a.limit, fltr |-> a.fltr, order |-> a.order,
                          cursor |-> a.cursor], headers, NoBody, proxies)
      [] name = "create_rulset" ->
            Request("POST", base_url \o <<"hunting_rulesets">>, NoParams, headers,
                    [json |-> a.data], proxies)
      [] name = "update_ruleset" ->
            Request("PATCH", base_url \o <<"hunting_rulesets", a.id>>, NoParams, headers,
                    [json |-> a.data], proxies)
      [] name = "delete_ruleset" ->
            Request("DELETE", base_url \o <<"hunting_rulesets", a.id>>, NoParams, headers,
                    NoBody, proxies)
      [] name = "get_notifications" ->
            IF Truthy(a.id)
            THEN Request("GET", base_url \o <<"hunting_notifications", a.id>>, [id |-> a.id],
                         headers, NoBody, None)
            ELSE Request("GET", base_url \o <<"hunting_notifications">>, NoParams,
                         headers, NoBody, proxies)
      [] name = "delete_notifications" ->
            Request("DELETE", base_url \o <<"hunting_notifications">>, [tag |-> a.tag],
                    headers, NoBody, proxies)
      [] name = "delete_notification" ->
            Request("DELETE", base_url \o <<"hunting_notifications">>, [id |-> a.id],
                    headers, NoBody, proxies)
      [] name = "get_notification_files" ->
            Request("GET", base_url \o <<"hunting_notification_files">>,
                    [limit |-> a.limit, cursor |-> a.cursor], headers, NoBody, proxies)
      [] name = "get_jobs" ->
            IF Truthy(a.id)
            THEN Request("GET", base_url \o <<"Retrohunt_jobs", a.id>>, [id |-> a.id],
                         headers, NoBody, proxies)
            ELSE Request("GET", base_url \o <<"Retrohunt_jobs">>,
                         [limit |-> a.limit, fltr |-> a.fltr, cursor |-> a.cursor],
                         headers, NoBody, proxies)
      [] name = "create_job" ->
            Request("POST", base_url \o <<"Retrohunt_jobs">>, NoParams, headers,
                    [json |-> a.data], proxies)
      [] name = "delete_job" ->
            Request("DELETE", base_url \o <<"Retrohunt_jobs", a.id>>, NoParams, headers,
                    NoBody, proxies)
      [] name = "abort_job" ->
            Request("POST", base_url \o <<"Retrohunt_jobs", a.id, "abort">>, NoParams, headers,
                    NoBody, proxies)
      [] name = "get_matching_files" ->
            Request("GET", base_url \o <<"Retrohunt_jobs", a.id, "matching_files">>, NoParams,
                    headers, NoBody, proxies)
      [] name = "info_user" ->
            Request("GET", base_url \o <<"users", a.id>>, [id |-> a.id], headers, NoBody, proxies)
      [] name = "info_group" ->
            Request("GET", base_url \o <<"groups", a.id>>, NoParams, headers, NoBody, proxies)
      [] name = "get_relationship" ->
            Request("GET", base_url \o <<"groups", a.id, "relationships", a.relationship>>,
                    [limit |-> a.limit, cursor |-> a.cursor], headers, NoBody, proxies)
      [] name = "create_zip" ->
            Request("POST", base_url \o <<"zip_files">>, NoParams, headers,
                    [json |-> a.data], proxies)
      [] name = "info_zip" ->
            Request("GET", base_url \o <<"zip_files", a.id>>, NoParams, headers, NoBody, proxies)
      [] name = "get_url" ->
            Request("GET", base_url \o <<"zip_files", a.id, "download_url">>, NoParams,
                    headers, NoBody, proxies)
      [] name = "get_zip" ->
            Request("GET", base_url \o <<"zip_files", a.id, "download">>, NoParams,
                    headers, NoBody, proxies)

\* What a method does with the transport's answer `t` (get_zip: up to the status check).
ResultOf(name, t) ==
    IF name \in {"delete_ruleset", "delete_notifications", "delete_notification",
                 "delete_job", "abort_job"}
    THEN NoneResult(t)
    ELSE IF name = "get_zip"
    THEN IF t.error THEN [outcome |-> on_RequestException, parsed |-> FALSE]
         ELSE IF t.status_code # 200 THEN [outcome |-> raise_exception(t), parsed |-> FALSE]
         ELSE [outcome |-> NoOutcome, parsed |-> FALSE]
    ELSE JsonResult(t)

\* The arguments the threads call each method with.
ThreadArgs(name) ==
    CASE name = "get_rulesets" ->
            {[id |-> i, limit |-> None, fltr |-> f, order |-> None, cursor |-> None] :
                i \in {None, "id1"}, f \in Filters}
      [] name \in {"get_notifications", "get_jobs"} ->
            {[id |-> i, limit |-> "10", fltr |-> None, cursor |-> None] : i \in {None, "id1"}}
      [] name \in {"create_rulset", "create_job", "create_zip"} -> {[data |-> d] : d \in Payloads}
      [] name = "update_ruleset" -> {[id |-> i, data |-> d] : i \in PlainIds, d \in Payloads}
      [] name = "delete_notifications" -> {[tag |-> tg] : tg \in Tags}
      [] name = "get_notification_files" -> {[limit |-> None, cursor |-> c] : c \in Cursors}
      [] name = "get_relationship" ->
            {[id |-> i, relationship |-> r, limit |-> "10", cursor |-> None] :
                i \in PlainIds, r \in Relationships}
      [] name = "get_zip" -> {[id |-> i, output_dir |-> d] : i \in PlainIds, d \in OutputDirs}
      [] OTHER -> {[id |-> i] : i \in PlainIds}

\* The calls a thread can make on the shared object.
ThreadCalls ==
    UNION {{[name |-> n, args |-> a] : a \in ThreadArgs(n)} : n \in Methods(obj.cls)}

\* The answers the transport gives the threads.
ThreadTransport(name) ==
    IF name = "get_zip"
    THEN {t \in ZipTransport :
            \/ t.error
            \/ t.status_code = 404 /\ Len(t.text) = 2
            \/ t.status_code = 200 /\ t.content \in {<<>>, <<"b1", "b0">>}}
    ELSE {t \in Transport : t.error \/ (t.status_code \in {200, 404} /\ Len(t.text) = 2)}

SetThread(th, r) == threads' = [threads EXCEPT ![th] = r]

SequentialUnchanged == UNCHANGED <<pc, call, sent, response, parsed, fault, outcome, handle, chunks>>

\* A thread enters a method of the shared object.
thread_call(th, name, a) ==
    /\ threads[th].pc = "idle"
    /\ name \in Methods(obj.cls)
    /\ SetThread(th, [pc |-> "base_url", name |-> name, args |-> a, base_url |-> Unset,
                      headers |-> Unset, proxies |-> Unset, request |-> Unset,
                      response |-> NoResponse, outcome |-> NoOutcome,
                      chunks |-> <<>>, pos |-> 0])
    /\ SequentialUnchanged /\ UNCHANGED <<obj, fs>>

\* self.base_url + '/...'
thread_read_base_url(th) ==
    /\ threads[th].pc = "base_url"
    /\ SetThread(th, [threads[th] EXCEPT !.base_url = obj.base_url, !.pc = "headers"])
    /\ SequentialUnchanged /\ UNCHANGED <<obj, fs>>

\* Variant of the headers argument: a method that sends a JSON body marks it in self.headers.
thread_read_headers_content_type(th) ==
    /\ threads[th].pc = "headers"
    /\ LET h == IF "data" \in DOMAIN threads[th].args
                THEN ("Content-Type" :> "application/json") @@ obj.headers
                ELSE obj.headers
       IN /\ obj' = [obj EXCEPT !.headers = h]
          /\ SetThread(th, [threads[th] EXCEPT !.headers = h, !.pc = "proxies"])
    /\ SequentialUnchanged /\ UNCHANGED fs

\* headers=self.headers
thread_read_headers(th) ==
    /\ threads[th].pc = "headers"
    /\ SetThread(th, [threads[th] EXCEPT !.headers = obj.headers, !.pc = "proxies"])
    /\ SequentialUnchanged /\ UNCHANGED <<obj, fs>>

\* proxies=self.proxies, then requests sends the request.
thread_send(th) ==
    /\ threads[th].pc = "proxies"
    /\ LET r == threads[th]
       IN SetThread(th, [r EXCEPT !.proxies = obj.proxies,
                                  !.request = RequestOf(r.name, r.args, r.base_url, r.headers,
                                                        obj.proxies),
                                  !.pc = "sent"])
    /\ SequentialUnchanged /\ UNCHANGED <<obj, fs>>

\* The transport answers or raises; the status check and the result follow.
thread_receive(th) ==
    /\ threads[th].pc = "sent"
    /\ \E t \in ThreadTransport(threads[th].name) :
         LET r == threads[th]
             res == ResultOf(r.name, t)
         IN SetThread(th, [r EXCEPT !.response = IF t.error THEN NoResponse ELSE t,
                                    !.outcome = res.outcome,
                                    !.pc = IF res.outcome.kind = "none" THEN "open" ELSE "done"])
    /\ SequentialUnchanged /\ UNCHANGED <<obj, fs>>

\* f.write(chunk) through a handle whose position is `pos`: the chunk replaces the bytes
\* from pos on; a file that has become shorter than pos is filled with zero bytes up to it.
WriteAt(content, pos, chunk) ==
    LET filled == IF Len(content) < pos
                  THEN content \o [i \in 1..(pos - Len(content)) |-> "nul"]
                  ELSE content
    IN SubSeq(filled, 1, pos) \o chunk \o SubSeq(filled, pos + Len(chunk) + 1, Len(filled))

\* get_zip: open(output_dir + '{}.zip'.format(zip_id), 'wb')
thread_open(th) ==
    /\ threads[th].pc = "open"
    /\ LET r == threads[th]
           path == Path(r.args.output_dir, r.args.id)
       IN \/ /\ SetThread(th, [r EXCEPT !.outcome = on_os_error, !.pc = "done"])
             /\ UNCHANGED fs
          \/ /\ \E cs \in Chunkings(r.response.content) :
                  SetThread(th, [r EXCEPT !.chunks = cs, !.pos = 0, !.pc = "writing"])
             /\ fs' = [fs EXCEPT ![path] = File(<<>>)]
    /\ SequentialUnchanged /\ UNCHANGED obj

\* get_zip: one turn of the chunk loop, or its end.
thread_write_chunk(th) ==
    /\ threads[th].pc = "writing"
    /\ LET r == threads[th]
           path == Path(r.args.output_dir, r.args.id)
       IN IF r.chunks = <<>>
          THEN /\ SetThread(th, [r EXCEPT !.outcome = Return(NoneValue), !.pc = "done"])
               /\ UNCHANGED fs
          ELSE IF Head(r.chunks) = <<>>
          THEN /\ SetThread(th, [r EXCEPT !.chunks = Tail(r.chunks)])
               /\ UNCHANGED fs
          ELSE \/ /\ fs' = [fs EXCEPT ![path] =
                              File(WriteAt(IF fs[path].exists THEN fs[path].content ELSE <<>>,
                                           r.pos, Head(r.chunks)))]
                  /\ SetThread(th, [r EXCEPT !.chunks = Tail(r.chunks),
                                             !.pos = r.pos + Len(Head(r.chunks))])
               \/ /\ SetThread(th, [r EXCEPT !.outcome = on_os_error, !.pc = "done"])
                  /\ UNCHANGED fs
    /\ SequentialUnchanged /\ UNCHANGED obj

\* The thread has its result and is free for its next call.
thread_resumes(th) ==
    /\ threads[th].pc = "done"
    /\ SetThread(th, Idle)
    /\ SequentialUnchanged /\ UNCHANGED <<obj, fs>>

\* The session objects the constructors build.
SessionObjects ==
    {Object("Livehunt", k, <<"intelligence">>, p) : k \in ApiKeys \ {None}, p \in ProxyMaps} \cup
    {Object("Retrohunt", k, <<"intelligence">>, p) : k \in ApiKeys, p \in ProxyMaps} \cup
    {Object("Accounts", k, <<>>, p) : k \in ApiKeys, p \in ProxyMaps} \cup
    {Object("ZipFiles", k, <<"intelligence">>, p) : k \in ApiKeys, p \in ProxyMaps}

ThreadsInit ==
    /\ obj \in SessionObjects
    /\ pc = "ready"
    /\ call = NoCall
    /\ sent = <<>>
    /\ response = NoResponse
    /\ parsed = FALSE
    /\ fault = "none"
    /\ outcome = NoOutcome
    /\ fs = [p \in Paths |-> Absent]
    /\ handle = NoHandle
    /\ chunks = <<>>
    /\ threads = [th \in Threads |-> Idle]

ThreadsNext ==
    \/ \E th \in Threads, c \in ThreadCalls : thread_call(th, c.name, c.args)
    \/ \E th \in Threads : thread_read_base_url(th)
    \/ \E th \in Threads : thread_read_headers(th)
    \/ \E th \in Threads : thread_send(th)
    \/ \E th \in Threads : thread_receive(th)
    \/ \E th \in Threads : thread_open(th)
    \/ \E th \in Threads : thread_write_chunk(th)
    \/ \E th \in Threads : thread_resumes(th)

ThreadsSpec == ThreadsInit /\ [][ThreadsNext]_vars

----------------------------------------------------------------------------
(* Properties *)

Range(f) == {f[x] : x \in DOMAIN f}

Called == call.name # "none"
Answered == response # NoResponse

JsonWrappers ==
    {"search", "file_feed", "get_rulesets", "create_rulset", "update_ruleset",
     "get_notifications", "get_notification_files", "get_jobs", "create_job",
     "get_matching_files", "info_user", "info_group", "get_relationship",
     "create_zip", "info_zip", "get_url"}

DeleteWrappers ==
    {"delete_ruleset", "delete_notifications", "delete_notification", "delete_job", "abort_job"}

Wrappers == JsonWrappers \cup DeleteWrappers \cup {"get_zip"}

\* A text whose members are not in key order: serializing it again changes it.
Unsorted(text) == dumps(json(text)) # text

\* C1: in every wrapper that yields JSON, a 200 answer with payload P is handed back to
\* the caller as P's sorted-key serialization, and parsing what was handed back gives P.
C1_JsonPassthrough ==
    (call.name \in JsonWrappers /\ Answered /\ response.status_code = 200)
        => /\ pc = "done"
           /\ outcome.kind = "return"
           /\ outcome.value = [json |-> dumps(json(response.text))]
           /\ json(outcome.value.json) = json(response.text)

\* C2: in every wrapper, an answer whose status is not 200 ends the call by raising to the
\* caller an error whose message is the body text verbatim: nothing is returned, the
\* process does not exit.
C2_Non200Raises ==
    (call.name \in Wrappers /\ Answered /\ response.status_code # 200)
        => /\ pc = "done"
           /\ outcome = Raise([text |-> response.text])

C2_Witness ==
    /\ call.name = "get_zip"
    /\ Answered /\ response.status_code = 204
    /\ Unsorted(response.text)
    /\ pc = "done" /\ outcome.kind = "raise"

\* C3: with api_key None, every constructor and every wrapper raises the configuration
\* error and no request has been sent.
C3_NoneKeyRaises ==
    (Called /\ call.api_key = None)
        => /\ outcome = raise_api_key
           /\ sent = <<>>

ListWrappers ==
    {"get_rulesets", "get_notifications", "get_notification_files", "get_jobs",
     "get_relationship", "search"}

\* The query key an argument is to be sent under: the filter goes under `filter`.
QueryKey(arg) == IF arg = "fltr" THEN "filter" ELSE arg

PagingArgs == {"limit", "fltr", "order", "cursor"}

\* C4: in every list-style wrapper, without a resource ID the request goes to the
\* collection path (no ID segment) and every filter/pagination argument the caller gave is
\* in the query under its key with the caller's value; with an ID, the ID is a segment of
\* the path.  (Which collection the path names is C8's subject.)
C4_ListRequest ==
    (call.name \in ListWrappers /\ sent # <<>>)
        => LET req == sent[1]
               a == call.args
           IN IF "id" \in DOMAIN a /\ Truthy(a.id)
              THEN Range(FormatSegments(a.id)) \subseteq Range(req.url)
              ELSE \A k \in PagingArgs \cap DOMAIN a :
                      a[k] # None => /\ QueryKey(k) \in DOMAIN req.query
                                     /\ req.query[QueryKey(k)] = a[k]

\* C5: in every wrapper, every key of the outgoing query is an argument the caller gave a
\* value to, sent with that value: an argument left None yields no key, no empty value and
\* no placeholder.
C5_NoAbsentParams ==
    (call.name \in Wrappers /\ sent # <<>>)
        => LET req == sent[1]
               a == call.args
           IN /\ \A q \in DOMAIN req.query :
                    /\ req.query[q] \notin {None, ""}
                    /\ \E k \in DOMAIN a : /\ q \in {k, QueryKey(k)}
                                           /\ a[k] # None
                                           /\ req.query[q] = a[k]
              /\ \A k \in DOMAIN a :
                    a[k] = None => /\ k \notin DOMAIN req.query
                                   /\ QueryKey(k) \notin DOMAIN req.query

C5_Witness ==
    /\ call.name = "get_rulesets" /\ sent # <<>>
    /\ call.args.id = None /\ call.args.limit = None /\ call.args.order = None
    /\ call.args.cursor = "c"
    /\ DOMAIN sent[1].query = {"cursor"}

\* The path of the file get_zip writes.
ZipPath == Path(call.args.output_dir, call.args.id)

\* C6: when get_zip got a 200 answer and returns, the destination file holds exactly the
\* bytes of the body, in order, however they were cut into chunks; and whenever get_zip has
\* ended, by returning or by a failed chunk write, the file handle is closed.
C6_ArchiveWritten ==
    (call.name = "get_zip" /\ pc \in {"done", "exited"})
        => /\ handle = NoHandle \/ ~handle.open
           /\ outcome.kind = "return"
                => /\ Answered /\ response.status_code = 200
                   /\ fs[ZipPath] = File(response.content)

C6_Witness ==
    /\ call.name = "get_zip" /\ pc = "done" /\ outcome.kind = "return"
    /\ Len(response.content) = MaxBytes
    /\ Range(response.content) = Bytes
    /\ fs[ZipPath] = File(response.content)
    /\ handle # NoHandle /\ ~handle.open

\* C7: in every wrapper, a RequestException raised while sending the request, and in
\* get_zip an OSError from the file system, ends in exit(1): the wrapper neither returns
\* nor raises to its caller.
C7_FaultExits ==
    (call.name \in Wrappers /\ fault # "none")
        => /\ pc = "exited"
           /\ outcome = Exit(1)

C7_Witness ==
    /\ call.name = "get_notifications" /\ fault = "RequestException"
    /\ sent # <<>> /\ ~Answered
    /\ pc = "exited"

\* The interface table: the method of each operation.
TableMethod(name) ==
    CASE name \in {"create_rulset", "create_job", "abort_job", "create_zip"} -> "POST"
      [] name = "update_ruleset" -> "PATCH"
      [] name \in {"delete_ruleset", "delete_notifications", "delete_notification",
                   "delete_job"} -> "DELETE"
      [] OTHER -> "GET"

\* The interface table: the paths an operation may use with arguments `a`.
TablePaths(name, a) ==
    LET id == IF "id" \in DOMAIN a THEN a.id ELSE None
        opt(coll) == IF Truthy(id) THEN {coll \o <<id>>} ELSE {coll}
    IN CASE name = "search" -> {<<"intelligence", "search">>}
         [] name = "file_feed" -> {<<"feeds", "files", a.time>>}
         [] name = "get_rulesets" -> opt(<<"intelligence", "hunting_rulesets">>)
         [] name = "create_rulset" -> {<<"intelligence", "hunting_rulesets">>}
         [] name \in {"update_ruleset", "delete_ruleset"} ->
                {<<"intelligence", "hunting_rulesets", id>>}
         [] name = "get_notifications" -> opt(<<"intelligence", "hunting_notifications">>)
         [] name \in {"delete_notifications", "delete_notification"} ->
                {<<"intelligence", "hunting_notifications">>,
                 <<"intelligence", "hunting_notifications", id>>}
         [] name = "get_notification_files" -> {<<"intelligence", "hunting_notification_files">>}
         [] name = "get_jobs" -> opt(<<"intelligence", "retrohunt_jobs">>)
         [] name = "create_job" -> {<<"intelligence", "retrohunt_jobs">>}
         [] name = "delete_job" -> {<<"intelligence", "retrohunt_jobs", id>>}
         [] name = "abort_job" -> {<<"intelligence", "retrohunt_jobs", id, "abort">>}
         [] name = "get_matching_files" ->
                {<<"intelligence", "retrohunt_jobs", id, "matching_files">>}
         [] name = "info_user" -> {<<"users", id>>}
         [] name = "info_group" -> {<<"groups", id>>}
         [] name = "get_relationship" -> {<<"groups", id, "relationships", a.relationship>>}
         [] name = "create_zip" -> {<<"intelligence", "zip_files">>}
         [] name = "info_zip" -> {<<"intelligence", "zip_files", id>>}
         [] name = "get_url" -> {<<"intelligence", "zip_files", id, "download_url">>}
         [] name = "get_zip" -> {<<"intelligence", "zip_files", id, "download">>}

\* C8: every wrapper sends its request with the method and to the path the interface
\* table gives for its operation.
C8_MethodAndPath ==
    (call.name \in Wrappers /\ sent # <<>>)
        => /\ sent[1].method = TableMethod(call.name)
           /\ sent[1].url \in {WirePath(p) : p \in TablePaths(call.name, call.args)}

\* C9: when the session (or the call, for the module-level functions) was given a proxy
\* map, every request of the call carries it.
C9_ProxiesCarried ==
    (call.name \in Wrappers /\ call.proxies # None)
        => \A i \in DOMAIN sent : sent[i].proxies = call.proxies

\* C10: a delete or abort wrapper that got a 200 answer returns None to its caller,
\* whatever the body.
C10_DeleteReturnsNone ==
    (call.name \in DeleteWrappers /\ Answered /\ response.status_code = 200)
        => /\ pc = "done"
           /\ outcome = Return(NoneValue)

C10_Witness ==
    /\ call.name = "abort_job" /\ Answered /\ response.status_code = 200
    /\ Len(response.text) > 1
    /\ outcome = Return(NoneValue)


\* In a call that runs alone, the request and the result are those RequestOf and ResultOf
\* give for the object's attributes.
AloneAgrees ==
    (call.name \in Wrappers \ {"search", "file_feed"} /\ sent # <<>>)
        => /\ sent[1] = RequestOf(call.name, call.args, obj.base_url, obj.headers, obj.proxies)
           /\ pc \in {"done", "exited"} /\ call.name # "get_zip"
                => outcome = ResultOf(call.name,
                                      IF Answered THEN response ELSE [error |-> TRUE]).outcome

InCall(th) == threads[th].pc \in {"sent", "open", "writing", "done"}

PastValidation ==
    /\ call.name \in Wrappers
    /\ call.name \in {"search", "file_feed"} => call.api_key # None

\* C12: an invocation sends at most one request, and exactly one once it is past argument
\* validation, whatever the transport answers: no retry, no second page, no polling.
C12_OneRequest ==
    /\ Len(sent) <= 1
    /\ PastValidation => Len(sent) = 1
    /\ (Called /\ ~PastValidation) => sent = <<>>

C12_Witness ==
    /\ call.name = "info_zip" /\ pc = "done"
    /\ Answered /\ response.status_code = 200
    /\ Len(sent) = 1


\* The URL-escaped form of an ID: "/" becomes "%2F".
Quote(id) == IF id = "a/b" THEN "a%2Fb" ELSE id

IdGiven == "id" \in DOMAIN call.args /\ Truthy(call.args.id)

\* C13: when a wrapper is given a resource ID, the path of its request has the ID,
\* URL-escaped, as a segment exactly once, and the ID is nowhere else in the request.
C13_IdOnceEscaped ==
    (call.name \in Wrappers /\ sent # <<>> /\ IdGiven)
        => LET req == sent[1]
               id == call.args.id
           IN /\ Cardinality({i \in DOMAIN req.url : req.url[i] = Quote(id)}) = 1
              /\ \A q \in DOMAIN req.query : req.query[q] \notin {id, Quote(id)}
              /\ req.body # [json |-> id]


\* C14: the status check comes before any use of the response body: after a non-200
\* answer the body has not been parsed as JSON and no file is open, and the step that
\* receives a non-200 answer raises and leaves the file system as it was.
C14_StatusCheckFirst ==
    /\ []((Answered /\ response.status_code # 200) => (~parsed /\ handle = NoHandle))
    /\ [][(response = NoResponse /\ response' # NoResponse /\ response'.status_code # 200)
             => (fs' = fs /\ outcome'.kind = "raise")]_vars

\* get_zip has raised on a 404 and the archive an earlier download wrote is still there.
C14_Witness ==
    /\ pc = "done" /\ call.name = "get_zip"
    /\ Answered /\ response.status_code = 404
    /\ outcome.kind = "raise" /\ ~parsed
    /\ fs[ZipPath].exists /\ fs[ZipPath].content # <<>>

====
